---- MODULE Spec2Model ----
(***************************************************************************)
(* Model of the Oura chat agent: makeOuraRequest, the health summary, the  *)
(* single-metric tools and the setup tool (src/src/oura.ts), the schedule  *)
(* tool (src/src/tools.ts) and the Chat agent (server).                    *)
(*                                                                         *)
(* JavaScript values are records [t, n, s]: t is the type tag, n the value *)
(* of a number, s the value of a string.  A text is a sequence of lines,   *)
(* a line a sequence of tokens: the literal fragments of the template      *)
(* strings (Str) and the numbers interpolated into them (Num, Grp).        *)
(*                                                                         *)
(* The fields of a record constructor are written in the order in which    *)
(* TLC keeps them, which is the order in which the names first occur in    *)
(* this module: a constant record is then never rearranged while several   *)
(* workers read it.                                                        *)
(***************************************************************************)
EXTENDS Integers, Sequences, FiniteSets, TLC

\* ------------------------------------------------------------ bounds
\* at most this many records and failed responses (a rejected request, or a body
\* without a data list) are received in total by one invocation
MaxLoad == 3

\* at most this many records are in the page a single-metric tool lists
MaxListed == 2

\* at most this many chat requests, calls of agent.schedule and runs of
\* executeTask are followed
MaxChats == 1

MaxSchedules == 2

MaxRuns == 2

\* ------------------------------------------------------------ JS values
Null == [t |-> "null", n |-> 0, s |-> ""]

Undefined == [t |-> "undefined", n |-> 0, s |-> ""]

Num(k) == [t |-> "number", n |-> k, s |-> ""]

Str(x) == [t |-> "string", n |-> 0, s |-> x]

\* a YYYY-MM-DD string, held as the number its digits YYYYMMDD spell
DateStr(yyyymmdd) == [t |-> "date", n |-> yyyymmdd, s |-> ""]

\* a three-digit group of a number printed with thousands separators
Grp(k) == [t |-> "digits3", n |-> k, s |-> ""]

\* ToBoolean: undefined, null, 0 and "" are falsy
Truthy(v) ==
  CASE v.t = "undefined" -> FALSE
    [] v.t = "null" -> FALSE
    [] v.t = "number" -> v.n # 0
    [] v.t = "string" -> v.s # ""
    [] OTHER -> TRUE

\* v !== null && v !== undefined
Present(v) == v.t # "null" /\ v.t # "undefined"

\* Math.round(a / b) for integers a >= 0, b > 0: halves round up
MathRound(a, b) == (2 * a + b) \div (2 * b)

\* Number.prototype.toLocaleString() of an integer k >= 0 (en-US grouping)
RECURSIVE ToLocaleString(_)
ToLocaleString(k) ==
  IF k < 1000 THEN <<Num(k)>>
  ELSE ToLocaleString(k \div 1000) \o <<Str(","), Grp(k % 1000)>>

\* ------------------------------------------------------------ the four fetches
Categories == <<"sleep", "activity", "stress", "readiness">>

CategorySet == {Categories[i] : i \in 1..Len(Categories)}

Endpoint(c) ==
  CASE c = "sleep" -> "/usercollection/daily_sleep"
    [] c = "activity" -> "/usercollection/daily_activity"
    [] c = "stress" -> "/usercollection/daily_stress"
    [] c = "readiness" -> "/usercollection/daily_readiness"

\* ------------------------------------------------------------ errors
OuraAPIUserError(message, userMessage) ==
  [message |-> message, userMessage |-> userMessage, name |-> "OuraAPIUserError"]

\* any other thrown value (TypeError of fetch or of a property read, SyntaxError of json())
OtherError(name) == [message |-> "", userMessage |-> <<>>, name |-> name]

SetupRequiredMessage ==
  <<<<Str("Setup Required: Please configure your Oura API token.")>>>>

AuthenticationFailedMessage ==
  <<<<Str("Authentication Failed: Your Oura API token is invalid or expired.")>>>>

AccessDeniedMessage == <<<<Str("Access Denied: Cannot access your Oura data.")>>>>

RateLimitMessage == <<<<Str("Rate Limit Reached: Too many requests to the Oura API.")>>>>

ApiErrorMessage(status) ==
  <<<<Str("API Error: Unable to fetch your Oura data ("), Num(status), Str(").")>>>>

\* ------------------------------------------------------------ promises
Pending == [status |-> "pending", value |-> [hasData |-> FALSE, data |-> <<>>],
            reason |-> OtherError("")]

Fulfilled(body) == [status |-> "fulfilled", value |-> body, reason |-> OtherError("")]

Rejected(error) == [status |-> "rejected", value |-> [hasData |-> FALSE, data |-> <<>>],
                    reason |-> error]

\* ------------------------------------------------------------ makeOuraRequest
\* mutant: makeOuraRequest goes on to fetch() without a token
TokenMissingNotTested(token) == FALSE

\* The part of makeOuraRequest before its await: TRUE when it throws at once.
TokenMissing(token) == ~token

\* mutant: a 403 is not told apart and takes the generic branch
MakeOuraRequestSettleNo403(resp) ==
  IF resp.kind = "network" THEN Rejected(OtherError("TypeError"))
  ELSE IF ~resp.ok THEN
    IF resp.status = 401
      THEN Rejected(OuraAPIUserError("Invalid Oura API token", AuthenticationFailedMessage))
    ELSE IF resp.status = 429
      THEN Rejected(OuraAPIUserError("Rate limit exceeded", RateLimitMessage))
    ELSE Rejected(OuraAPIUserError(IF resp.text = "" THEN "Oura API error"
                                                      ELSE "Oura API error, Details",
                                   ApiErrorMessage(resp.status)))
  ELSE IF ~resp.json THEN Rejected(OtherError("SyntaxError"))
  ELSE Fulfilled(resp.body)

\* The part of makeOuraRequest after fetch() has settled with `resp`.
\* resp.kind: "network" (fetch rejected), "http" (a response with ok, status, json).
MakeOuraRequestSettle(resp) ==
  IF resp.kind = "network" THEN Rejected(OtherError("TypeError"))
  ELSE IF ~resp.ok THEN
    IF resp.status = 401
      THEN Rejected(OuraAPIUserError("Invalid Oura API token", AuthenticationFailedMessage))
    ELSE IF resp.status = 403
      THEN Rejected(OuraAPIUserError("Access forbidden", AccessDeniedMessage))
    ELSE IF resp.status = 429
      THEN Rejected(OuraAPIUserError("Rate limit exceeded", RateLimitMessage))
    ELSE Rejected(OuraAPIUserError(IF resp.text = "" THEN "Oura API error"
                                                      ELSE "Oura API error, Details",
                                   ApiErrorMessage(resp.status)))
  ELSE IF ~resp.json THEN Rejected(OtherError("SyntaxError"))
  ELSE Fulfilled(resp.body)

\* ------------------------------------------------------------ getDateRange
\* A calendar day is [y, m, d]; the clock gives the current one.
IsLeapYear(y) == (y % 4 = 0 /\ y % 100 # 0) \/ y % 400 = 0

\* mutant: February has 28 days in every year
DaysInMonthNoLeapDay(y, m) ==
  CASE m = 2 -> 28
    [] m \in {4, 6, 9, 11} -> 30
    [] OTHER -> 31

DaysInMonth(y, m) ==
  CASE m = 2 -> IF IsLeapYear(y) THEN 29 ELSE 28
    [] m \in {4, 6, 9, 11} -> 30
    [] OTHER -> 31

\* the day before `date`
PreviousDay(date) ==
  IF date.d > 1 THEN [date EXCEPT !.d = date.d - 1]
  ELSE IF date.m > 1
    THEN [y |-> date.y, m |-> date.m - 1, d |-> DaysInMonth(date.y, date.m - 1)]
    ELSE [y |-> date.y - 1, m |-> 12, d |-> 31]

RECURSIVE MinusDays(_, _)
\* `date` minus n days
MinusDays(date, n) == IF n = 0 THEN date ELSE MinusDays(PreviousDay(date), n - 1)

\* a day as its YYYY-MM-DD text
FormatDate(date) == DateStr(date.y * 10000 + date.m * 100 + date.d)

\* mutant: the week and the month reach back 7 and 30 days
GetDateRangeOneDayLonger(period, day) ==
  CASE period = "today" -> [start_date |-> FormatDate(day), end_date |-> FormatDate(day)]
    [] period = "yesterday" ->
         [start_date |-> FormatDate(MinusDays(day, 1)), end_date |-> FormatDate(MinusDays(day, 1))]
    [] period = "month" -> [start_date |-> FormatDate(MinusDays(day, 30)), end_date |-> FormatDate(day)]
    [] OTHER -> [start_date |-> FormatDate(MinusDays(day, 7)), end_date |-> FormatDate(day)]

\* mutant: the token is matched without regard to case, the empty token is today
GetDateRangeLenientMatch(period, day) ==
  CASE period \in {"today", "Today", ""} ->
         [start_date |-> FormatDate(day), end_date |-> FormatDate(day)]
    [] period = "yesterday" ->
         [start_date |-> FormatDate(MinusDays(day, 1)), end_date |-> FormatDate(MinusDays(day, 1))]
    [] period \in {"month", "MONTH"} ->
         [start_date |-> FormatDate(MinusDays(day, 29)), end_date |-> FormatDate(day)]
    [] OTHER -> [start_date |-> FormatDate(MinusDays(day, 6)), end_date |-> FormatDate(day)]

\* getDateRange(period) of utils.ts on the day `day`
GetDateRange(period, day) ==
  CASE period = "today" -> [start_date |-> FormatDate(day), end_date |-> FormatDate(day)]
    [] period = "yesterday" ->
         [start_date |-> FormatDate(MinusDays(day, 1)), end_date |-> FormatDate(MinusDays(day, 1))]
    [] period = "month" -> [start_date |-> FormatDate(MinusDays(day, 29)), end_date |-> FormatDate(day)]
    [] OTHER -> [start_date |-> FormatDate(MinusDays(day, 6)), end_date |-> FormatDate(day)]

\* mutant: one explicit bound suffices (|| in place of &&)
DetermineDateRangeEitherBound(a, day) ==
  IF Truthy(a.start_date) \/ Truthy(a.end_date)
    THEN [start_date |-> a.start_date, end_date |-> a.end_date]
    ELSE GetDateRange(a.period, day)

\* "Determine date range": explicit bounds win when both are truthy
DetermineDateRange(a, day) ==
  IF Truthy(a.start_date) /\ Truthy(a.end_date)
    THEN [start_date |-> a.start_date, end_date |-> a.end_date]
    ELSE GetDateRange(a.period, day)

\* ------------------------------------------------------------ aggregation helpers
\* data.filter(d => d.score !== null && d.score !== undefined)
FilterScored(data) == SelectSeq(data, LAMBDA d : Present(d.score))

\* data.reduce((sum, d) => sum + (d.score || 0), 0)
RECURSIVE SumScore(_)
SumScore(data) ==
  IF data = <<>> THEN 0
  ELSE SumScore(SubSeq(data, 1, Len(data) - 1))
       + (IF Truthy(data[Len(data)].score) THEN data[Len(data)].score.n ELSE 0)

\* data.reduce((sum, d) => sum + d.steps, 0)
RECURSIVE SumSteps(_)
SumSteps(data) ==
  IF data = <<>> THEN 0
  ELSE SumSteps(SubSeq(data, 1, Len(data) - 1)) + data[Len(data)].steps

\* mutant: a truthiness test, which drops a stress_high of 0
FilterStressHighTruthy(data) == SelectSeq(data, LAMBDA d : Truthy(d.stress_high))

\* data.filter(d => d.stress_high !== null && d.stress_high !== undefined)
FilterStressHigh(data) == SelectSeq(data, LAMBDA d : Present(d.stress_high))

\* data.reduce((sum, d) => sum + (d.stress_high || 0), 0)
RECURSIVE SumStressHigh(_)
SumStressHigh(data) ==
  IF data = <<>> THEN 0
  ELSE SumStressHigh(SubSeq(data, 1, Len(data) - 1))
       + (IF Truthy(data[Len(data)].stress_high) THEN data[Len(data)].stress_high.n ELSE 0)

\* stressData.map(d => d.day_summary).filter(s => s !== null)
Summaries(data) ==
  SelectSeq([i \in 1..Len(data) |-> data[i].day_summary], LAMBDA s : s.t # "null")

\* summaries.filter(v => v === a).length
Occurrences(summaries, a) == Cardinality({i \in 1..Len(summaries) : summaries[i] = a})

\* the comparator (a, b) => count(a) - count(b)
CompareFn(summaries, a, b) == Occurrences(summaries, a) - Occurrences(summaries, b)

\* mutant: a sort that puts an element before the elements it ties with
RECURSIVE StableSortTiesFirst(_, _)
StableSortTiesFirst(arr, all) ==
  IF arr = <<>> THEN <<>>
  ELSE LET x == arr[Len(arr)]
           front == StableSortTiesFirst(SubSeq(arr, 1, Len(arr) - 1), all)
       IN  SelectSeq(front, LAMBDA y : CompareFn(all, y, x) < 0) \o <<x>>
           \o SelectSeq(front, LAMBDA y : CompareFn(all, y, x) >= 0)

\* the stable sort of the defined elements of `arr`, comparing with CompareFn over `all`
RECURSIVE StableSort(_, _)
StableSort(arr, all) ==
  IF arr = <<>> THEN <<>>
  ELSE LET x == arr[Len(arr)]
           front == StableSort(SubSeq(arr, 1, Len(arr) - 1), all)
       IN  SelectSeq(front, LAMBDA y : CompareFn(all, y, x) <= 0) \o <<x>>
           \o SelectSeq(front, LAMBDA y : CompareFn(all, y, x) > 0)

\* Array.prototype.sort(comparefn): the defined elements in comparator order
\* (stable), then the undefined ones, which the comparator never sees
ArraySort(arr) ==
  StableSort(SelectSeq(arr, LAMBDA v : v.t # "undefined"), arr)
  \o SelectSeq(arr, LAMBDA v : v.t = "undefined")

\* Array.prototype.pop() of a non-empty array
Pop(arr) == arr[Len(arr)]

\* summaries.length > 0 ? summaries.sort(...).pop() : null
MostCommonSummary(data) ==
  LET summaries == Summaries(data)
  IN  IF Len(summaries) > 0 THEN Pop(ArraySort(summaries)) ELSE Null

\* ------------------------------------------------------------ category lines
NoDataLine(label) == <<Str(label), Str(": No data available")>>

\* mutant: the days reported are the scored records only
SleepLineCountsScored(r) ==
  IF r.status = "fulfilled" /\ Len(r.value.data) > 0 THEN
    LET validSleepData == FilterScored(r.value.data)
    IN  IF Len(validSleepData) > 0
          THEN <<Str("Sleep"), Str(": Average score "),
                 Num(MathRound(SumScore(validSleepData), Len(validSleepData))),
                 Str("/100 ("), Num(Len(validSleepData)), Str(" days)")>>
          ELSE <<Str("Sleep"), Str(": Data available but no scores calculated")>>
  ELSE NoDataLine("Sleep")

\* "Process sleep data"
SleepLine(r) ==
  IF r.status = "fulfilled" /\ Len(r.value.data) > 0 THEN
    LET validSleepData == FilterScored(r.value.data)
    IN  IF Len(validSleepData) > 0
          THEN <<Str("Sleep"), Str(": Average score "),
                 Num(MathRound(SumScore(validSleepData), Len(validSleepData))),
                 Str("/100 ("), Num(Len(r.value.data)), Str(" days)")>>
          ELSE <<Str("Sleep"), Str(": Data available but no scores calculated")>>
  ELSE NoDataLine("Sleep")

\* mutant: the step average is taken over the scored records, and is missing without them
ActivityLineStepsOfScored(r) ==
  IF r.status = "fulfilled" /\ Len(r.value.data) > 0 THEN
    LET validActivityData == FilterScored(r.value.data)
    IN  IF Len(validActivityData) > 0
          THEN <<Str("Activity"), Str(": Average score "),
                 Num(MathRound(SumScore(validActivityData), Len(validActivityData))),
                 Str("/100, ")>>
               \o ToLocaleString(MathRound(SumSteps(validActivityData), Len(validActivityData)))
               \o <<Str(" avg steps/day")>>
          ELSE NoDataLine("Activity")
  ELSE NoDataLine("Activity")

\* "Process activity data"
ActivityLine(r) ==
  IF r.status = "fulfilled" /\ Len(r.value.data) > 0 THEN
    LET validActivityData == FilterScored(r.value.data)
        totalSteps == SumSteps(r.value.data)
        avgSteps == MathRound(totalSteps, Len(r.value.data))
    IN  IF Len(validActivityData) > 0
          THEN <<Str("Activity"), Str(": Average score "),
                 Num(MathRound(SumScore(validActivityData), Len(validActivityData))),
                 Str("/100, ")>> \o ToLocaleString(avgSteps) \o <<Str(" avg steps/day")>>
          ELSE <<Str("Activity"), Str(": ")>> \o ToLocaleString(avgSteps)
               \o <<Str(" avg steps/day (no scores available)")>>
  ELSE NoDataLine("Activity")

\* "Process stress data"
StressLine(r) ==
  IF r.status = "fulfilled" /\ Len(r.value.data) > 0 THEN
    LET stressData == r.value.data
        validStressData == FilterStressHigh(stressData)
        mostCommonSummary == MostCommonSummary(stressData)
    IN  IF Len(validStressData) > 0
          THEN <<Str("Stress"), Str(": "),
                 Num(MathRound(SumStressHigh(validStressData), 60 * Len(validStressData))),
                 Str(" avg minutes/day, mostly "),
                 IF Truthy(mostCommonSummary) THEN mostCommonSummary ELSE Str("N/A")>>
          ELSE <<Str("Stress"), Str(": Data available but no stress times calculated")>>
  ELSE NoDataLine("Stress")

\* "Process readiness data"
ReadinessLine(r) ==
  IF r.status = "fulfilled" /\ Len(r.value.data) > 0 THEN
    LET validReadinessData == FilterScored(r.value.data)
    IN  IF Len(validReadinessData) > 0
          THEN <<Str("Readiness"), Str(": Average score "),
                 Num(MathRound(SumScore(validReadinessData), Len(validReadinessData))),
                 Str("/100 ("), Num(Len(r.value.data)), Str(" days)")>>
          ELSE <<Str("Readiness"), Str(": Data available but no scores calculated")>>
  ELSE NoDataLine("Readiness")

\* ------------------------------------------------------------ key insights
\* mutant: stress is left out of the failed requests, as it is of the data points
FailedRequestsNoStress(ps) ==
  SelectSeq(<<ps["sleep"], ps["activity"], ps["readiness"]>>, LAMBDA r : r.status = "rejected")

\* [sleep, activity, stress, readiness].filter(r => r.status === 'rejected')
FailedRequests(ps) == SelectSeq([i \in 1..Len(Categories) |-> ps[Categories[i]]],
                                LAMBDA r : r.status = "rejected")

\* mutant: the stress records are counted too
TotalDataPointsWithStress(ps) ==
  (IF ps["sleep"].status = "fulfilled" THEN Len(ps["sleep"].value.data) ELSE 0)
  + (IF ps["activity"].status = "fulfilled" THEN Len(ps["activity"].value.data) ELSE 0)
  + (IF ps["stress"].status = "fulfilled" THEN Len(ps["stress"].value.data) ELSE 0)
  + (IF ps["readiness"].status = "fulfilled" THEN Len(ps["readiness"].value.data) ELSE 0)

\* the records of sleep, activity and readiness; stress is not counted
TotalDataPoints(ps) ==
  (IF ps["sleep"].status = "fulfilled" THEN Len(ps["sleep"].value.data) ELSE 0)
  + (IF ps["activity"].status = "fulfilled" THEN Len(ps["activity"].value.data) ELSE 0)
  + (IF ps["readiness"].status = "fulfilled" THEN Len(ps["readiness"].value.data) ELSE 0)

SomeUnavailableInsight ==
  <<Str("- Some data types may not be available for your account or ring model")>>

NoDataFoundInsight ==
  <<Str("- No data found - make sure to sync your Oura ring with the mobile app")>>

LimitedDataInsight ==
  <<Str("- Limited data available - consider syncing your ring more regularly")>>

GoodCoverageInsight ==
  <<Str("- Good data coverage - keep up the consistent tracking!")>>

\* mutant: the insight on failed requests quotes the user message of the first failure
FailedInsightNamesCause(ps) ==
  IF Len(FailedRequests(ps)) > 0
    THEN <<SomeUnavailableInsight>> \o FailedRequests(ps)[1].reason.userMessage
    ELSE <<>>

\* the insight on failed requests
FailedInsight(ps) ==
  IF Len(FailedRequests(ps)) > 0 THEN <<SomeUnavailableInsight>> ELSE <<>>

\* the insight on data availability
CoverageInsight(ps) ==
  IF TotalDataPoints(ps) = 0 THEN <<NoDataFoundInsight>>
  ELSE IF TotalDataPoints(ps) < 3 THEN <<LimitedDataInsight>>
  ELSE <<GoodCoverageInsight>>

\* ------------------------------------------------------------ the report
HeaderLine == <<Str("Comprehensive Health Summary")>>

PeriodLine(range) == <<Str("Period: "), range.start_date, Str(" to "), range.end_date>>

InsightsHeaderLine == <<Str("Key Insights:")>>

GenericSummaryError ==
  <<<<Str("Error: Unable to fetch health summary. Please try again later.")>>>>

\* reading value.data.length of a fulfilled response whose body has no data list
\* throws a TypeError
ReadThrows(r) == r.status = "fulfilled" /\ ~r.value.hasData

\* the try block after the await: the text built in `response`
BuildResponse(range, ps) ==
  <<HeaderLine, <<>>, PeriodLine(range), <<>>,
    SleepLine(ps["sleep"]), ActivityLine(ps["activity"]),
    StressLine(ps["stress"]), ReadinessLine(ps["readiness"]),
    <<>>, InsightsHeaderLine>>
  \o FailedInsight(ps) \o CoverageInsight(ps)

\* the try block after the await: it throws, or it returns `response`
TryBlock(range, ps) ==
  IF \E c \in CategorySet : ReadThrows(ps[c])
    THEN [value |-> <<>>, error |-> OtherError("TypeError"), threw |-> TRUE]
    ELSE [value |-> BuildResponse(range, ps), error |-> OtherError(""), threw |-> FALSE]

\* the catch block of executeGetOuraHealthSummary
CatchSummary(error) ==
  IF error.name = "OuraAPIUserError" THEN error.userMessage ELSE GenericSummaryError

\* the promise an async function returns
ResultPending == [status |-> "pending", value |-> <<>>]

Resolved(text) == [status |-> "fulfilled", value |-> text]

Thrown(error) == [status |-> "rejected", value |-> <<>>]

\* mutant: Promise.all in place of Promise.allSettled, the first rejection reaches the catch
SummaryResultFailFast(range, ps) ==
  LET failed == FailedRequests(ps)
      t == TryBlock(range, ps)
  IN  IF Len(failed) > 0 THEN Resolved(CatchSummary(failed[1].reason))
      ELSE IF t.threw THEN Resolved(CatchSummary(t.error)) ELSE Resolved(t.value)

\* mutant: no catch block, what the try block throws rejects the promise
SummaryResultNoCatch(range, ps) ==
  LET t == TryBlock(range, ps)
  IN  IF t.threw THEN Thrown(t.error) ELSE Resolved(t.value)

\* executeGetOuraHealthSummary from the settled results on: what its promise settles to
SummaryResult(range, ps) ==
  LET t == TryBlock(range, ps)
  IN  IF t.threw THEN Resolved(CatchSummary(t.error)) ELSE Resolved(t.value)

\* ------------------------------------------------------------ the single-metric tools
\* The records carry the fields the summary reads (score, steps, stress_high,
\* day_summary) and recovery_high; the lines formatted from other fields (day,
\* calories, contributors, temperature_deviation) are left out of the texts.
ScoreItem(score) ==
  IF Truthy(score) THEN <<Str("Score: "), score, Str("/100")>> ELSE <<Str("Score: "), Str("N/A")>>

RECURSIVE FormatSleepItems(_)
FormatSleepItems(sleepData) ==
  IF sleepData = <<>> THEN <<>>
  ELSE <<ScoreItem(Head(sleepData).score), <<>>>> \o FormatSleepItems(Tail(sleepData))

formatSleepData(sleepData) ==
  IF Len(sleepData) = 0 THEN <<<<Str("No sleep data found")>>>>
  ELSE <<<<Str("Sleep Summary")>>, <<>>>> \o FormatSleepItems(sleepData)

RECURSIVE FormatActivityItems(_)
FormatActivityItems(activityData) ==
  IF activityData = <<>> THEN <<>>
  ELSE <<ScoreItem(Head(activityData).score),
         <<Str("Steps: ")>> \o ToLocaleString(Head(activityData).steps), <<>>>>
       \o FormatActivityItems(Tail(activityData))

formatActivityData(activityData) ==
  IF Len(activityData) = 0 THEN <<<<Str("No activity data found")>>>>
  ELSE <<<<Str("Activity Summary")>>, <<>>>> \o FormatActivityItems(activityData)

RECURSIVE FormatStressItems(_)
FormatStressItems(stressData) ==
  IF stressData = <<>> THEN <<>>
  ELSE LET stress == Head(stressData)
       IN  <<<<Str("Day Summary: "),
               IF Truthy(stress.day_summary) THEN stress.day_summary ELSE Str("N/A")>>,
             IF Truthy(stress.stress_high)
               THEN <<Str("High Stress Time: "), Num(MathRound(stress.stress_high.n, 60)),
                      Str(" minutes")>>
               ELSE <<Str("High Stress Time: "), Str("N/A")>>,
             IF Truthy(stress.recovery_high)
               THEN <<Str("High Recovery Time: "), Num(MathRound(stress.recovery_high.n, 60)),
                      Str(" minutes")>>
               ELSE <<Str("High Recovery Time: "), Str("N/A")>>,
             <<>>>>
           \o FormatStressItems(Tail(stressData))

formatStressData(stressData) ==
  IF Len(stressData) = 0 THEN <<<<Str("No stress data found")>>>>
  ELSE <<<<Str("Stress Summary")>>, <<>>>> \o FormatStressItems(stressData)

RECURSIVE FormatReadinessItems(_)
FormatReadinessItems(readinessData) ==
  IF readinessData = <<>> THEN <<>>
  ELSE <<ScoreItem(Head(readinessData).score), <<>>>>
       \o FormatReadinessItems(Tail(readinessData))

formatReadinessData(readinessData) ==
  IF Len(readinessData) = 0 THEN <<<<Str("No readiness data found")>>>>
  ELSE <<<<Str("Readiness Summary")>>, <<>>>> \o FormatReadinessItems(readinessData)

\* String.prototype.trim() of a text: the trailing empty lines go
RECURSIVE Trim(_)
Trim(text) ==
  IF text # <<>> /\ text[Len(text)] = <<>> THEN Trim(SubSeq(text, 1, Len(text) - 1)) ELSE text

FormatData(c, data) ==
  CASE c = "sleep" -> Trim(formatSleepData(data))
    [] c = "activity" -> Trim(formatActivityData(data))
    [] c = "stress" -> Trim(formatStressData(data))
    [] c = "readiness" -> Trim(formatReadinessData(data))

GenericMetricError(c) ==
  <<<<Str("Error: Unable to fetch "), Str(c), Str(" data. Please try again later.")>>>>

\* mutant: the catch block answers every error with the generic text
CatchMetricAlwaysGeneric(c, error) == GenericMetricError(c)

\* the catch block of a single-metric tool
CatchMetric(c, error) ==
  IF error.name = "OuraAPIUserError" THEN error.userMessage ELSE GenericMetricError(c)

\* a single-metric tool from its settled request on: what its promise settles to
\* (formatting a body without a data list throws a TypeError on .length)
MetricResult(c, p) ==
  IF p.status = "rejected" THEN Resolved(CatchMetric(c, p.reason))
  ELSE IF ~p.value.hasData THEN Resolved(CatchMetric(c, OtherError("TypeError")))
  ELSE Resolved(FormatData(c, p.value.data))

\* ------------------------------------------------------------ executeCheckOuraSetup
SetupNoTokenMessage == <<<<Str("Setup Required: No Oura API token found.")>>>>

SetupCheckFailedMessage ==
  <<<<Str("Setup Check Failed: Unable to verify your Oura API connection.")>>>>

\* the lines that follow the account lines
WhatYouCanDoLines == <<<<>>, <<Str("What you can do now:")>>>>

\* the text built from the personal info
SetupComplete(personalInfo) ==
  <<<<Str("Oura API Setup Complete!")>>, <<>>, <<Str("Account ID: "), personalInfo.id>>>>
  \o (IF Truthy(personalInfo.email) THEN <<<<Str("Email: "), personalInfo.email>>>> ELSE <<>>)
  \o (IF Truthy(personalInfo.age) THEN <<<<Str("Age: "), personalInfo.age>>>> ELSE <<>>)
  \o (IF Truthy(personalInfo.biological_sex)
        THEN <<<<Str("Biological Sex: "), personalInfo.biological_sex>>>> ELSE <<>>)
  \o WhatYouCanDoLines

\* the catch block of executeCheckOuraSetup
CatchSetup(error) ==
  IF error.name = "OuraAPIUserError" THEN error.userMessage ELSE SetupCheckFailedMessage

\* executeCheckOuraSetup from its settled request on (reading .id of a body
\* that is null throws a TypeError)
SetupResult(p) ==
  IF p.status = "rejected" THEN Resolved(CatchSetup(p.reason))
  ELSE IF ~p.value.object THEN Resolved(CatchSetup(OtherError("TypeError")))
  ELSE Resolved(SetupComplete(p.value))

\* ------------------------------------------------------------ inputs
ScoreValues == {Null, Undefined, Num(80), Num(91)}

SleepRecords == {[score |-> v] : v \in ScoreValues}

ReadinessRecords == {[score |-> v] : v \in ScoreValues}

ActivityRecords ==
  {[score |-> Null, steps |-> 1000], [score |-> Undefined, steps |-> 3001],
   [score |-> Num(70), steps |-> 1000], [score |-> Num(85), steps |-> 3001]}

StressRecords ==
  {[stress_high |-> Num(0), day_summary |-> Str("normal")],
   [stress_high |-> Num(90), day_summary |-> Str("stressful")],
   [stress_high |-> Num(90), day_summary |-> Null],
   [stress_high |-> Num(90), day_summary |-> Undefined],
   [stress_high |-> Null, day_summary |-> Str("normal")],
   [stress_high |-> Undefined, day_summary |-> Str("restored")]}

RecordsOf(c) ==
  CASE c = "sleep" -> SleepRecords
    [] c = "activity" -> ActivityRecords
    [] c = "stress" -> StressRecords
    [] c = "readiness" -> ReadinessRecords

SeqsUpTo(S, k) == UNION {[1..m -> S] : m \in 0..k}

NoBody == [hasData |-> FALSE, data |-> <<>>]

ErrorStatuses == {401, 403, 429, 500}

\* the failed responses: fetch() rejects, a status that is not ok, a body that
\* is not JSON, a JSON body without a data list
FailedResponses ==
  {[status |-> 0, body |-> NoBody, kind |-> "network", ok |-> FALSE, text |-> "", json |-> FALSE]}
  \cup {[status |-> st, body |-> NoBody, kind |-> "http", ok |-> FALSE, text |-> "", json |-> FALSE] :
          st \in ErrorStatuses}
  \cup {[status |-> 200, body |-> NoBody, kind |-> "http", ok |-> TRUE, text |-> "", json |-> FALSE]}
  \cup {[status |-> 200, body |-> NoBody, kind |-> "http", ok |-> TRUE, text |-> "", json |-> TRUE]}

\* what fetch() of category c may settle with when k more events fit the bound
HttpResponses(c, k) ==
  (IF k > 0 THEN FailedResponses ELSE {})
  \cup {[status |-> 200, body |-> [hasData |-> TRUE, data |-> d],
         kind |-> "http", ok |-> TRUE, text |-> "", json |-> TRUE] : d \in SeqsUpTo(RecordsOf(c), k)}

ClockDays == {[y |-> 2024, m |-> 3, d |-> 1]}

SummaryArgs ==
  {[period |-> "week", start_date |-> Undefined, end_date |-> Undefined],
   [period |-> "today", start_date |-> DateStr(20240210), end_date |-> DateStr(20240215)]}

\* the period tokens: the vocabulary, and tokens outside it
Periods == {"today", "yesterday", "week", "month", "", "Today", "MONTH", "unknown-token"}

\* what a caller may pass as start_date or end_date
BoundValues == {Undefined, Str(""), DateStr(20240210), DateStr(20240201)}

DateArgs ==
  {[period |-> p, start_date |-> s, end_date |-> e] :
     p \in Periods, s \in BoundValues, e \in BoundValues}

\* days at and after the ends of months and years, in leap and common years
BoundaryDays ==
  {[y |-> 2024, m |-> 3, d |-> 1], [y |-> 2023, m |-> 3, d |-> 1],
   [y |-> 2100, m |-> 3, d |-> 1], [y |-> 2024, m |-> 1, d |-> 1],
   [y |-> 2024, m |-> 1, d |-> 20], [y |-> 2024, m |-> 12, d |-> 31],
   [y |-> 2024, m |-> 5, d |-> 6], [y |-> 2024, m |-> 7, d |-> 30]}

DateResponses(c) ==
  {[status |-> 200, body |-> [hasData |-> TRUE, data |-> <<>>],
    kind |-> "http", ok |-> TRUE, text |-> "", json |-> TRUE]}

FetchArgs == {[period |-> "week", start_date |-> Undefined, end_date |-> Undefined]}

\* a record of category c
OneRecord(c) ==
  CASE c = "sleep" -> [score |-> Num(80)]
    [] c = "activity" -> [score |-> Num(70), steps |-> 1000]
    [] c = "stress" -> [stress_high |-> Num(90), day_summary |-> Str("stressful")]
    [] c = "readiness" -> [score |-> Num(91)]

\* a failed request, an empty page, a last page, a page that names a next one
FetchResponses(c) ==
  {[status |-> 0, body |-> NoBody, kind |-> "network", ok |-> FALSE, text |-> "", json |-> FALSE],
   [status |-> 401, body |-> NoBody, kind |-> "http", ok |-> FALSE, text |-> "", json |-> FALSE],
   [status |-> 200, body |-> [hasData |-> TRUE, data |-> <<>>],
    kind |-> "http", ok |-> TRUE, text |-> "", json |-> TRUE],
   [status |-> 200, body |-> [hasData |-> TRUE, data |-> <<OneRecord(c)>>],
    kind |-> "http", ok |-> TRUE, text |-> "", json |-> TRUE],
   [status |-> 200, body |-> [hasData |-> TRUE, data |-> <<OneRecord(c)>>, next_token |-> Str("page-2")],
    kind |-> "http", ok |-> TRUE, text |-> "", json |-> TRUE]}

ToolArgs == {[period |-> "week", start_date |-> Undefined, end_date |-> Undefined]}

ListedValues == {Null, Undefined, Num(0), Num(80)}

\* the records a single-metric tool lists
ToolRecords(c) ==
  CASE c = "sleep" -> {[score |-> v] : v \in ListedValues}
    [] c = "readiness" -> {[score |-> v] : v \in ListedValues}
    [] c = "activity" -> {[score |-> Null, steps |-> 1000], [score |-> Undefined, steps |-> 3001],
                          [score |-> Num(0), steps |-> 0], [score |-> Num(80), steps |-> 3001]}
    [] c = "stress" ->
         {[stress_high |-> Num(0), day_summary |-> Str("normal"), recovery_high |-> Num(90)],
          [stress_high |-> Num(90), day_summary |-> Str("stressful"), recovery_high |-> Num(0)],
          [stress_high |-> Null, day_summary |-> Null, recovery_high |-> Undefined],
          [stress_high |-> Undefined, day_summary |-> Undefined, recovery_high |-> Null]}

\* the statuses of responses that are not ok, and of those that are
NotOkStatuses == {401, 403, 429, 404, 500}

OkStatuses == {200, 204}

\* the responses without a JSON body: fetch() rejects; a status that is not ok,
\* with or without a text; an ok status with a body that is not JSON
BodilessResponses ==
  {[status |-> 0, body |-> NoBody, kind |-> "network", ok |-> FALSE, text |-> "", json |-> FALSE]}
  \cup {[status |-> st, body |-> NoBody, kind |-> "http", ok |-> FALSE, text |-> t, json |-> FALSE] :
          st \in NotOkStatuses, t \in {"", "quota exceeded"}}
  \cup {[status |-> st, body |-> NoBody, kind |-> "http", ok |-> TRUE, text |-> "", json |-> FALSE] :
          st \in OkStatuses}

\* what fetch() of the single-metric tool of category c may settle with
ToolResponses(c) ==
  BodilessResponses
  \cup {[status |-> 200, body |-> NoBody, kind |-> "http", ok |-> TRUE, text |-> "", json |-> TRUE]}
  \cup {[status |-> 200, body |-> [hasData |-> TRUE, data |-> d],
         kind |-> "http", ok |-> TRUE, text |-> "", json |-> TRUE] : d \in SeqsUpTo(ToolRecords(c), MaxListed)}

\* the bodies of personal_info: the JSON null, a full record, a record with
\* only an id, an empty object
InfoBodies ==
  {[id |-> Undefined, email |-> Undefined, age |-> Undefined, biological_sex |-> Undefined,
    object |-> FALSE],
   [id |-> Str("user-1"), email |-> Str("a@example.com"), age |-> Num(30), biological_sex |-> Str("female"),
    object |-> TRUE],
   [id |-> Str("user-1"), email |-> Null, age |-> Num(0), biological_sex |-> Undefined,
    object |-> TRUE],
   [id |-> Undefined, email |-> Undefined, age |-> Undefined, biological_sex |-> Undefined,
    object |-> TRUE]}

SetupResponses ==
  BodilessResponses
  \cup {[status |-> 200, body |-> b, kind |-> "http", ok |-> TRUE, text |-> "", json |-> TRUE] :
          b \in InfoBodies}

\* the requests a tool may make: one per category, and personal_info
\* ------------------------------------------------------------ the chat agent
\* the chat histories the agent may hold before anything of this model runs
Histories ==
  {<<>>,
   <<[role |-> "user", content |-> <<Str("How did I sleep?")>>],
     [role |-> "assistant", content |-> <<Str("Your sleep score was 80.")>>]>>}

Descriptions == {"drink water", "review sleep"}

\* the inputs the schedule schema lets through
Whens ==
  {[date |-> Undefined, type |-> "no-schedule", delayInSeconds |-> Undefined, cron |-> Undefined],
   [date |-> DateStr(20240302), type |-> "scheduled", delayInSeconds |-> Undefined,
    cron |-> Undefined],
   [date |-> Undefined, type |-> "delayed", delayInSeconds |-> Num(60), cron |-> Undefined],
   [date |-> Undefined, type |-> "cron", delayInSeconds |-> Undefined, cron |-> Str("0 8 * * *")]}

\* what a call of agent.schedule may do: return its promise, which fulfils
\* ("scheduled") or rejects ("rejects"), or throw before it returns ("throws")
ScheduleOutcomes == {"scheduled", "throws", "rejects"}

\* how the language model ends a response: a finish reason, or an error that
\* reaches onError instead of onFinish
ModelOutcomes == {"stop", "tool-calls", "failed"}

SetupRequiredChatMessage == <<<<Str("Oura API Setup Required")>>>>

Returned(text) == [status |-> "fulfilled", value |-> text]

\* the input scheduleTask picks by when.type
ScheduleInput(when) ==
  CASE when.type = "scheduled" -> when.date
    [] when.type = "delayed" -> when.delayInSeconds
    [] when.type = "cron" -> when.cron

\* the message executeTask adds
TaskMessage(description) ==
  [role |-> "user", content |-> <<Str("Running scheduled task: "), Str(description)>>]

RequestKeys == CategorySet \cup {"setup"}

NoResponse == [status |-> 0, body |-> NoBody, kind |-> "none", ok |-> FALSE, text |-> "", json |-> FALSE]

NoReturn == [status |-> "pending", value |-> <<>>]

NoArgs == [period |-> "", start_date |-> Undefined, end_date |-> Undefined]

NoRange == [start_date |-> Undefined, end_date |-> Undefined]

\* ------------------------------------------------------------ state
VARIABLES
  API_TOKEN,   \* process.env.OURA_API_TOKEN is set
  today,       \* the current day
  tool,        \* the tool invoked: "none", "summary", or the category of a single-metric tool
  pc,          \* "idle", "awaiting" (at the await of the tool), "done"
  args,        \* the arguments of the invocation
  dateRange,   \* the local dateRange
  calls,       \* the calls of makeOuraRequest made, in order
  requests,    \* the HTTP requests issued, in order
  promises,    \* the promises of the calls of makeOuraRequest, by category
  responses,   \* what fetch() settled with, by request ("setup": the personal_info request)
  result,      \* the promise the tool returned
  arrival,     \* history: the categories in the order their requests settled
  messages,    \* Chat.messages, the chat history
  stream,      \* what onChatMessage wrote to the data stream, in order
  finishes,    \* the finishReason of every call of onFinish, in order
  modelCalls,  \* the calls of streamText
  toolRuns,    \* the calls of processToolCalls
  schedules,   \* the calls of agent.schedule, in order
  scheduleReturn \* what the last call of the scheduleTask tool settled to

\* the state of the Oura tools, and the state of the chat agent
oura == <<today, tool, pc, args, dateRange, calls, requests, promises, responses, result, arrival>>

agent == <<messages, stream, finishes, modelCalls, toolRuns, schedules, scheduleReturn>>

vars == <<API_TOKEN, oura, agent>>

InitWith(days, histories) ==
  /\ API_TOKEN \in BOOLEAN
  /\ today \in days
  /\ tool = "none"
  /\ pc = "idle"
  /\ args = NoArgs
  /\ dateRange = NoRange
  /\ calls = <<>>
  /\ requests = <<>>
  /\ promises = [c \in CategorySet |-> Pending]
  /\ responses = [k \in RequestKeys |-> NoResponse]
  /\ result = ResultPending
  /\ arrival = <<>>
  /\ messages \in histories
  /\ stream = <<>>
  /\ finishes = <<>>
  /\ modelCalls = 0
  /\ toolRuns = 0
  /\ schedules = <<>>
  /\ scheduleReturn = NoReturn

InitOn(days) == InitWith(days, {<<>>})

Init == InitOn(ClockDays)

\* the records and failed responses received so far
Load(ps) ==
  Len(ps["sleep"].value.data) + Len(ps["activity"].value.data)
  + Len(ps["stress"].value.data) + Len(ps["readiness"].value.data)
  + Cardinality({c \in CategorySet :
                  ps[c].status = "rejected" \/ (ps[c].status = "fulfilled" /\ ~ps[c].value.hasData)})

\* makeOuraRequest(endpoint, params) as called by a tool for category c
Call(c, range) ==
  [start_date |-> range.start_date, end_date |-> range.end_date, endpoint |-> Endpoint(c)]

\* executeGetOuraHealthSummary up to its await: the date range, then the four
\* calls of makeOuraRequest, each of which throws at once without a token and
\* otherwise issues its request
Invoke(a) ==
  /\ pc = "idle"
  /\ tool' = "summary"
  /\ args' = a
  /\ dateRange' = DetermineDateRange(a, today)
  /\ calls' = [i \in 1..Len(Categories) |-> Call(Categories[i], dateRange')]
  /\ IF TokenMissing(API_TOKEN)
       THEN /\ promises' = [c \in CategorySet |->
                              Rejected(OuraAPIUserError("Oura API token not configured",
                                                        SetupRequiredMessage))]
            /\ requests' = <<>>
       ELSE /\ promises' = [c \in CategorySet |-> Pending]
            /\ requests' = calls'
  /\ pc' = "awaiting"
  /\ UNCHANGED <<API_TOKEN, today, result, arrival, responses>>
  /\ UNCHANGED agent

\* mutant: a page that names a next page is followed by a request for that page
SettleFollowsNextToken(c, resp) ==
  /\ pc = "awaiting"
  /\ tool = "summary"
  /\ promises[c].status = "pending"
  /\ promises' = [promises EXCEPT ![c] = MakeOuraRequestSettle(resp)]
  /\ IF resp.kind = "http" /\ resp.ok /\ resp.json /\ "next_token" \in DOMAIN resp.body
       THEN /\ calls' = Append(calls, Call(c, dateRange))
            /\ requests' = Append(requests, Call(c, dateRange))
       ELSE UNCHANGED <<calls, requests>>
  /\ UNCHANGED <<API_TOKEN, today, tool, pc, args, dateRange, result>>
  /\ responses' = [responses EXCEPT ![c] = resp]
  /\ UNCHANGED agent

\* fetch() of category c settles with resp and makeOuraRequest runs to its end
\* (the history `arrival` is written by the next-state relation)
Settle(c, resp) ==
  /\ pc = "awaiting"
  /\ tool = "summary"
  /\ promises[c].status = "pending"
  /\ promises' = [promises EXCEPT ![c] = MakeOuraRequestSettle(resp)]
  /\ UNCHANGED <<API_TOKEN, today, tool, pc, args, dateRange, calls, requests, result>>
  /\ responses' = [responses EXCEPT ![c] = resp]
  /\ UNCHANGED agent

\* mutant: the results of the two score requests are taken in the order they
\* settled, not in the order the requests were passed to Promise.allSettled
AggregateInCompletionOrder ==
  /\ pc = "awaiting"
  /\ tool = "summary"
  /\ \A c \in CategorySet : promises[c].status # "pending"
  /\ LET at(c) == CHOOSE i \in 1..Len(arrival) : arrival[i] = c
         swapped == Len(arrival) = Len(Categories) /\ at("readiness") < at("sleep")
         results == IF swapped
                      THEN [promises EXCEPT !["sleep"] = promises["readiness"],
                                            !["readiness"] = promises["sleep"]]
                      ELSE promises
     IN  result' = SummaryResult(dateRange, results)
  /\ pc' = "done"
  /\ UNCHANGED <<API_TOKEN, today, tool, args, dateRange, calls, requests, promises, arrival, responses>>
  /\ UNCHANGED agent

\* mutant: the function goes on as soon as one promise has settled
AggregateOnFirstSettled ==
  /\ pc = "awaiting"
  /\ tool = "summary"
  /\ \E c \in CategorySet : promises[c].status # "pending"
  /\ result' = SummaryResult(dateRange, promises)
  /\ pc' = "done"
  /\ UNCHANGED <<API_TOKEN, today, tool, args, dateRange, calls, requests, promises, arrival, responses>>
  /\ UNCHANGED agent

\* mutant: the stress label works on the response data itself, and its pop()
\* takes the last record out of the fetched list
AggregateOnResponseData ==
  /\ pc = "awaiting"
  /\ tool = "summary"
  /\ \A c \in CategorySet : promises[c].status # "pending"
  /\ result' = SummaryResult(dateRange, promises)
  /\ pc' = "done"
  /\ promises' = IF promises["stress"].status = "fulfilled" /\ promises["stress"].value.data # <<>>
                   THEN [promises EXCEPT !["stress"].value.data = SubSeq(@, 1, Len(@) - 1)]
                   ELSE promises
  /\ UNCHANGED <<API_TOKEN, today, tool, args, dateRange, calls, requests, arrival, responses>>
  /\ UNCHANGED agent

\* all four promises have settled: the rest of executeGetOuraHealthSummary
Aggregate ==
  /\ pc = "awaiting"
  /\ tool = "summary"
  /\ \A c \in CategorySet : promises[c].status # "pending"
  /\ result' = SummaryResult(dateRange, promises)
  /\ pc' = "done"
  /\ UNCHANGED <<API_TOKEN, today, tool, args, dateRange, calls, requests, promises, arrival, responses>>
  /\ UNCHANGED agent

\* a single-metric tool (executeGetOuraSleepData, ...ActivityData, ...StressData,
\* ...ReadinessData) up to its await: the date range, then its one call of
\* makeOuraRequest; without a token the call throws at once and the catch
\* block returns
InvokeMetric(c, a) ==
  /\ pc = "idle"
  /\ tool' = c
  /\ args' = a
  /\ dateRange' = DetermineDateRange(a, today)
  /\ calls' = <<Call(c, dateRange')>>
  /\ IF TokenMissing(API_TOKEN)
       THEN /\ promises' = [promises EXCEPT ![c] =
                              Rejected(OuraAPIUserError("Oura API token not configured",
                                                        SetupRequiredMessage))]
            /\ requests' = <<>>
            /\ result' = MetricResult(c, promises'[c])
            /\ pc' = "done"
       ELSE /\ requests' = calls'
            /\ pc' = "awaiting"
            /\ UNCHANGED <<promises, result>>
  /\ UNCHANGED <<API_TOKEN, today, arrival, responses>>
  /\ UNCHANGED agent

\* fetch() of the single-metric tool of category c settles with resp,
\* makeOuraRequest runs to its end and the tool returns
ReturnMetric(c, resp) ==
  /\ pc = "awaiting"
  /\ tool = c
  /\ promises' = [promises EXCEPT ![c] = MakeOuraRequestSettle(resp)]
  /\ result' = MetricResult(c, promises'[c])
  /\ pc' = "done"
  /\ UNCHANGED <<API_TOKEN, today, tool, args, dateRange, calls, requests, arrival>>
  /\ responses' = [responses EXCEPT ![c] = resp]
  /\ UNCHANGED agent

\* executeCheckOuraSetup up to its await: without a token it returns at once,
\* otherwise it calls makeOuraRequest for personal_info with no parameters
InvokeSetup ==
  /\ pc = "idle"
  /\ tool' = "setup"
  /\ IF ~API_TOKEN
       THEN /\ result' = Resolved(SetupNoTokenMessage)
            /\ pc' = "done"
            /\ UNCHANGED <<calls, requests>>
       ELSE /\ calls' = <<[start_date |-> Undefined,
                            end_date |-> Undefined, endpoint |-> "/usercollection/personal_info"]>>
            /\ requests' = IF TokenMissing(API_TOKEN) THEN <<>> ELSE calls'
            /\ pc' = "awaiting"
            /\ UNCHANGED result
  /\ UNCHANGED <<API_TOKEN, today, args, dateRange, promises, responses, arrival>>
  /\ UNCHANGED agent

\* fetch() of personal_info settles with resp, makeOuraRequest runs to its
\* end and executeCheckOuraSetup returns
ReturnSetup(resp) ==
  /\ pc = "awaiting"
  /\ tool = "setup"
  /\ responses' = [responses EXCEPT !["setup"] = resp]
  /\ result' = SetupResult(MakeOuraRequestSettle(resp))
  /\ pc' = "done"
  /\ UNCHANGED <<API_TOKEN, today, tool, args, dateRange, calls, requests, promises, arrival>>
  /\ UNCHANGED agent

\* mutant: onChatMessage goes on to the model without testing the token
OnChatMessageNoTokenTest(outcome) ==
  /\ Len(finishes) < MaxChats
  /\ modelCalls < MaxChats
  /\ toolRuns' = toolRuns + 1
  /\ modelCalls' = modelCalls + 1
  /\ stream' = Append(stream, [value |-> <<<<Str("model response")>>>>, type |-> "merged"])
  /\ finishes' = IF outcome = "failed" THEN finishes ELSE Append(finishes, outcome)
  /\ UNCHANGED <<messages, schedules, scheduleReturn>>
  /\ UNCHANGED <<API_TOKEN, oura>>

\* Chat.onChatMessage with its data stream run to the end: without a token
\* the annotation and the setup message are written and onFinish is called
\* with finishReason 'error'; with one, processToolCalls runs, streamText
\* calls the model, its stream is merged in and its onFinish is passed on
OnChatMessage(outcome) ==
  /\ Len(finishes) < MaxChats
  /\ modelCalls < MaxChats
  /\ IF ~API_TOKEN
       THEN /\ stream' = stream \o <<[value |-> <<<<Str("messageIdFromServer")>>>>, type |-> "annotation"],
                                     [value |-> SetupRequiredChatMessage, type |-> "data"]>>
            /\ finishes' = Append(finishes, "error")
            /\ UNCHANGED <<modelCalls, toolRuns>>
       ELSE /\ toolRuns' = toolRuns + 1
            /\ modelCalls' = modelCalls + 1
            /\ stream' = Append(stream, [value |-> <<<<Str("model response")>>>>, type |-> "merged"])
            /\ finishes' = IF outcome = "failed" THEN finishes ELSE Append(finishes, outcome)
  /\ UNCHANGED <<messages, schedules, scheduleReturn>>
  /\ UNCHANGED <<API_TOKEN, oura>>

\* mutant: no catch block around the call of agent.schedule
ScheduleTaskNoCatch(when, description, outcome) ==
  /\ Len(schedules) < MaxSchedules
  /\ IF when.type = "no-schedule"
       THEN /\ scheduleReturn' = Returned(<<Str("Not a valid schedule input")>>)
            /\ UNCHANGED schedules
       ELSE /\ schedules' = Append(schedules, [when |-> ScheduleInput(when),
                                                outcome |-> outcome,
                                                callback |-> "executeTask",
                                                payload |-> description])
            /\ scheduleReturn' =
                 IF outcome = "throws"
                   THEN [status |-> "rejected", value |-> <<>>]
                   ELSE Returned(<<Str("Task scheduled for type "), Str(when.type), Str(" : "),
                                   ScheduleInput(when)>>)
  /\ UNCHANGED <<messages, stream, finishes, modelCalls, toolRuns>>
  /\ UNCHANGED <<API_TOKEN, oura>>

\* the execute function of scheduleTask; `schedules` lists the calls of
\* agent.schedule with what each of them did. The call is not awaited, so
\* only an error thrown before agent.schedule returns reaches the catch block
ScheduleTask(when, description, outcome) ==
  /\ Len(schedules) < MaxSchedules
  /\ IF when.type = "no-schedule"
       THEN /\ scheduleReturn' = Returned(<<Str("Not a valid schedule input")>>)
            /\ UNCHANGED schedules
       ELSE /\ schedules' = Append(schedules, [when |-> ScheduleInput(when),
                                                outcome |-> outcome,
                                                callback |-> "executeTask",
                                                payload |-> description])
            /\ scheduleReturn' =
                 IF outcome = "throws"
                   THEN Returned(<<Str("Error scheduling task: "), Str("Error")>>)
                   ELSE Returned(<<Str("Task scheduled for type "), Str(when.type), Str(" : "),
                                   ScheduleInput(when)>>)
  /\ UNCHANGED <<messages, stream, finishes, modelCalls, toolRuns>>
  /\ UNCHANGED <<API_TOKEN, oura>>

\* the runs of executeTask with this description so far
RunsOf(description) ==
  Cardinality({i \in 1..Len(messages) : messages[i] = TaskMessage(description)})

\* the runs of executeTask so far
Runs == Cardinality({i \in 1..Len(messages) : \E d \in Descriptions : messages[i] = TaskMessage(d)})

\* the alarm may run a schedule that was registered: a cron schedule again
\* and again, any other once
Due(description) ==
  LET registered == {i \in 1..Len(schedules) : /\ schedules[i].outcome = "scheduled"
                                                /\ schedules[i].payload = description}
  IN  \/ \E i \in registered : schedules[i].when.t = "string"
      \/ RunsOf(description) < Cardinality(registered)

\* mutant: only the new message is saved
ExecuteTaskSavesOnlyNew(description) ==
  /\ Due(description)
  /\ Runs < MaxRuns
  /\ messages' = <<TaskMessage(description)>>
  /\ UNCHANGED <<stream, finishes, modelCalls, toolRuns, schedules, scheduleReturn>>
  /\ UNCHANGED <<API_TOKEN, oura>>

\* Chat.executeTask: saveMessages stores the list it is given as the history
ExecuteTask(description) ==
  /\ Due(description)
  /\ Runs < MaxRuns
  /\ messages' = Append(messages, TaskMessage(description))
  /\ UNCHANGED <<stream, finishes, modelCalls, toolRuns, schedules, scheduleReturn>>
  /\ UNCHANGED <<API_TOKEN, oura>>

\* ---- the health summary on one day, with up to MaxLoad records
Next ==
  \/ \E a \in SummaryArgs : Invoke(a)
  \/ \E c \in CategorySet :
       \E resp \in HttpResponses(c, MaxLoad - Load(promises)) :
         Settle(c, resp) /\ UNCHANGED arrival
  \/ Aggregate

Spec == Init /\ [][Next]_vars

\* ---- the five data tools over the period tokens, explicit bounds and days
InitDates == InitOn(BoundaryDays)

NextDates ==
  \/ \E a \in DateArgs : Invoke(a)
  \/ \E c \in CategorySet : \E a \in DateArgs : InvokeMetric(c, a)
  \/ \E c \in CategorySet :
       \E resp \in DateResponses(c) : Settle(c, resp) /\ UNCHANGED arrival
  \/ Aggregate
  \/ \E c \in CategorySet : \E resp \in DateResponses(c) : ReturnMetric(c, resp)

SpecDates == InitDates /\ [][NextDates]_vars

\* ---- the health summary with the order of completion recorded, and pages
NextFetch ==
  \/ \E a \in FetchArgs : Invoke(a)
  \/ \E c \in CategorySet :
       \E resp \in FetchResponses(c) : Settle(c, resp) /\ arrival' = Append(arrival, c)
  \/ Aggregate

SpecFetch == Init /\ [][NextFetch]_vars

\* the continuation of an await runs once its promise has settled
LiveFetch == SpecFetch /\ WF_vars(Aggregate)

\* ---- the single-metric tools and the setup tool over every kind of response
NextTools ==
  \/ \E c \in CategorySet : \E a \in ToolArgs : InvokeMetric(c, a)
  \/ \E c \in CategorySet : \E resp \in ToolResponses(c) : ReturnMetric(c, resp)
  \/ InvokeSetup
  \/ \E resp \in SetupResponses : ReturnSetup(resp)

SpecTools == Init /\ [][NextTools]_vars

\* ---- the chat agent: chat requests, the schedule tool and scheduled runs
InitAgent == InitWith(ClockDays, Histories)

NextAgent ==
  \/ \E outcome \in ModelOutcomes : OnChatMessage(outcome)
  \/ \E when \in Whens : \E description \in Descriptions : \E outcome \in ScheduleOutcomes :
       ScheduleTask(when, description, outcome)
  \/ \E description \in Descriptions : ExecuteTask(description)

SpecAgent == InitAgent /\ [][NextAgent]_vars

\* ------------------------------------------------------------ reading a report
Done == pc = "done"

\* the text is the composite report: its header, and its ten fixed lines
IsComposite(text) == Len(text) >= 10 /\ text[1] = <<Str("Comprehensive Health Summary")>>

CategoryIndex(c) == CHOOSE i \in 1..Len(Categories) : Categories[i] = c

\* the line of category c in a composite report
CategoryLineOf(text, c) == text[4 + CategoryIndex(c)]

\* the insights of a composite report
InsightsOf(text) == {text[i] : i \in 11..Len(text)}

LabelOf(c) ==
  CASE c = "sleep" -> "Sleep"
    [] c = "activity" -> "Activity"
    [] c = "stress" -> "Stress"
    [] c = "readiness" -> "Readiness"

NoDataAvailable(c) == <<Str(LabelOf(c)), Str(": No data available")>>

IsRejected(c) == promises[c].status = "rejected"

\* the fetch of c succeeded with a list of records
HasList(c) == promises[c].status = "fulfilled" /\ promises[c].value.hasData

DataOf(c) == promises[c].value.data

\* ------------------------------------------------------------ C1
\* the settled results with every rejected fetch replaced by a successful one
\* (with an empty list, or with one record)
Replacements(c) ==
  IF IsRejected(c)
    THEN {Fulfilled([hasData |-> TRUE, data |-> <<>>]),
          Fulfilled([hasData |-> TRUE, data |-> <<CHOOSE r \in RecordsOf(c) : TRUE>>])}
    ELSE {promises[c]}

WithoutRejections ==
  {[c \in CategorySet |->
      CASE c = "sleep" -> s [] c = "activity" -> a [] c = "stress" -> t [] OTHER -> r] :
     s \in Replacements("sleep"), a \in Replacements("activity"),
     t \in Replacements("stress"), r \in Replacements("readiness")}

\* C1: whatever subset of the four fetches rejects, the invocation still returns
\* the composite report whenever it would have returned it had those fetches
\* succeeded; in it every rejected category reads "No data available" and the
\* line of every other category is the line of the report without rejections.
C1_RejectionsDegradeAlone ==
  Done =>
    \A q \in WithoutRejections :
      LET alt == SummaryResult(dateRange, q).value
      IN  /\ IsComposite(alt) => IsComposite(result.value)
          /\ IsComposite(result.value) =>
               \A c \in CategorySet :
                 IF IsRejected(c)
                   THEN CategoryLineOf(result.value, c) = NoDataAvailable(c)
                   ELSE CategoryLineOf(result.value, c) = CategoryLineOf(alt, c)

\* two fetches rejected, a third returned a record and its line reports it
C1_Witness ==
  /\ Done
  /\ IsComposite(result.value)
  /\ IsRejected("sleep") /\ IsRejected("stress")
  /\ HasList("activity") /\ Len(DataOf("activity")) > 0
  /\ CategoryLineOf(result.value, "activity") # NoDataAvailable("activity")
  /\ CategoryLineOf(result.value, "sleep") = NoDataAvailable("sleep")

\* ------------------------------------------------------------ C2
\* the fetch of c ended in one of the error kinds: it rejected (no token, 401,
\* 403, 429, another status, a network or parse error) or its body has no data list
HasErrorKind(c) ==
  IsRejected(c) \/ (promises[c].status = "fulfilled" /\ ~promises[c].value.hasData)

\* C2: an error of any kind in one category, the three others having succeeded,
\* leaves the composite report in place and only turns that category's line into
\* "No data available".
C2_EveryErrorKindDegrades ==
  Done =>
    \A c \in CategorySet :
      (HasErrorKind(c) /\ \A d \in CategorySet \ {c} : HasList(d)) =>
        /\ IsComposite(result.value)
        /\ CategoryLineOf(result.value, c) = NoDataAvailable(c)

\* ------------------------------------------------------------ C3
\* C3: the promise of executeGetOuraHealthSummary is never rejected, it is
\* fulfilled once the invocation is done, and when all four fetches rejected its
\* text is the composite report with four "No data available" lines and the
\* "No data found" insight.
C3_NeverRejects ==
  /\ result.status # "rejected"
  /\ Done => result.status = "fulfilled"
  /\ (Done /\ \A c \in CategorySet : IsRejected(c)) =>
       /\ IsComposite(result.value)
       /\ \A c \in CategorySet : CategoryLineOf(result.value, c) = NoDataAvailable(c)
       /\ NoDataFoundInsight \in InsightsOf(result.value)

\* all four fetches rejected and the report was returned
C3_Witness ==
  /\ Done
  /\ \A c \in CategorySet : IsRejected(c)
  /\ result.status = "fulfilled"
  /\ IsComposite(result.value)

\* ------------------------------------------------------------ C4
\* the report of a finished invocation, when it is the composite report
Reported == Done /\ IsComposite(result.value)

\* m is total / count rounded to the nearest integer, halves up
IsRoundedMean(m, total, count) ==
  /\ count > 0
  /\ count * (2 * m - 1) <= 2 * total
  /\ 2 * total < count * (2 * m + 1)

\* the sum of f[i] over the indices in S
RECURSIVE SumOver(_, _)
SumOver(f, S) ==
  IF S = {} THEN 0
  ELSE LET i == CHOOSE j \in S : TRUE IN f[i] + SumOver(f, S \ {i})

\* the records of `data` that carry a score
ScoredIndices(data) == {i \in 1..Len(data) : data[i].score.t = "number"}

ScoreSum(data) == SumOver([i \in 1..Len(data) |-> data[i].score.n], ScoredIndices(data))

\* C4: the sleep and the readiness line report the rounded mean of the scores
\* that are there and the number of all records; "Data available but no scores
\* calculated" when there are records and none has a score; "No data available"
\* when the fetch failed or returned no record.
C4_ScoreLineThreeWay ==
  Reported =>
    \A c \in {"sleep", "readiness"} :
      LET line == CategoryLineOf(result.value, c)
          data == DataOf(c)
      IN  IF HasList(c) /\ ScoredIndices(data) # {}
            THEN /\ Len(line) = 6
                 /\ line[1] = Str(LabelOf(c))
                 /\ line[2] = Str(": Average score ")
                 /\ line[3].t = "number"
                 /\ IsRoundedMean(line[3].n, ScoreSum(data), Cardinality(ScoredIndices(data)))
                 /\ line[4] = Str("/100 (")
                 /\ line[5] = Num(Len(data))
                 /\ line[6] = Str(" days)")
          ELSE IF HasList(c) /\ Len(data) > 0
            THEN line = <<Str(LabelOf(c)), Str(": Data available but no scores calculated")>>
          ELSE line = NoDataAvailable(c)

\* scores 80, 91 and none: the mean 85.5 of the two is reported as 86, over 3 days
C4_Witness ==
  /\ Reported
  /\ HasList("sleep")
  /\ DataOf("sleep") = <<[score |-> Num(80)], [score |-> Num(91)], [score |-> Null]>>
  /\ CategoryLineOf(result.value, "sleep")[3] = Num(86)
  /\ CategoryLineOf(result.value, "sleep")[5] = Num(3)

\* ------------------------------------------------------------ C5
\* the tokens are a number printed in groups of three digits
RECURSIVE IsGrouped(_)
IsGrouped(toks) ==
  IF Len(toks) = 1 THEN toks[1].t = "number" /\ toks[1].n < 1000
  ELSE /\ Len(toks) >= 3
       /\ toks[Len(toks)].t = "digits3" /\ toks[Len(toks)].n < 1000
       /\ toks[Len(toks) - 1] = Str(",")
       /\ IsGrouped(SubSeq(toks, 1, Len(toks) - 2))
       /\ SubSeq(toks, 1, Len(toks) - 2) # <<Num(0)>>

\* the number such tokens print
RECURSIVE GroupedValue(_)
GroupedValue(toks) ==
  IF Len(toks) = 1 THEN toks[1].n
  ELSE 1000 * GroupedValue(SubSeq(toks, 1, Len(toks) - 2)) + toks[Len(toks)].n

StepSum(data) == SumOver([i \in 1..Len(data) |-> data[i].steps], 1..Len(data))

\* C5: with at least one activity record the line carries the rounded mean of
\* the steps of all records, in the scored variant and in the "(no scores
\* available)" variant alike.
C5_AverageStepsOverAllRecords ==
  (Reported /\ HasList("activity") /\ Len(DataOf("activity")) > 0) =>
    LET line == CategoryLineOf(result.value, "activity")
        data == DataOf("activity")
        from == IF ScoredIndices(data) # {} THEN 5 ELSE 3
        steps == SubSeq(line, from, Len(line) - 1)
    IN  /\ Len(line) > from
        /\ line[1] = Str("Activity")
        /\ IF ScoredIndices(data) # {}
             THEN /\ line[2] = Str(": Average score ")
                  /\ line[4] = Str("/100, ")
                  /\ line[Len(line)] = Str(" avg steps/day")
             ELSE /\ line[2] = Str(": ")
                  /\ line[Len(line)] = Str(" avg steps/day (no scores available)")
        /\ IsGrouped(steps)
        /\ IsRoundedMean(GroupedValue(steps), StepSum(data), Len(data))

\* 1000 and 3001 steps without scores: "2,001 avg steps/day (no scores available)"
C5_Witness ==
  /\ Reported
  /\ HasList("activity")
  /\ DataOf("activity") = <<[score |-> Null, steps |-> 1000], [score |-> Undefined, steps |-> 3001]>>
  /\ CategoryLineOf(result.value, "activity") =
       <<Str("Activity"), Str(": "), Num(2), Str(","), Grp(1),
         Str(" avg steps/day (no scores available)")>>

\* ------------------------------------------------------------ C6
\* the records of `data` that carry a stress_high
TimedIndices(data) == {i \in 1..Len(data) : data[i].stress_high.t = "number"}

StressHighSum(data) ==
  SumOver([i \in 1..Len(data) |-> data[i].stress_high.n], TimedIndices(data))

\* C6: the stress line reports the mean of the stress_high seconds that are
\* there (0 included), divided by 60 and rounded; "Data available but no stress
\* times calculated", without a label, when there are records and none has a
\* stress_high; "No data available" when the fetch failed or returned no record.
C6_StressLineThreeWay ==
  Reported =>
    LET line == CategoryLineOf(result.value, "stress")
        data == DataOf("stress")
    IN  IF HasList("stress") /\ TimedIndices(data) # {}
          THEN /\ Len(line) = 5
               /\ line[1] = Str("Stress")
               /\ line[2] = Str(": ")
               /\ line[3].t = "number"
               /\ IsRoundedMean(line[3].n, StressHighSum(data),
                                60 * Cardinality(TimedIndices(data)))
               /\ line[4] = Str(" avg minutes/day, mostly ")
               /\ line[5].t = "string"
        ELSE IF HasList("stress") /\ Len(data) > 0
          THEN line = <<Str("Stress"), Str(": Data available but no stress times calculated")>>
        ELSE line = NoDataAvailable("stress")

\* stress_high 0 and 90: the mean 45 s of both is reported as 1 minute (90 s alone
\* would be 2)
C6_Witness ==
  /\ Reported
  /\ HasList("stress")
  /\ DataOf("stress") = <<[stress_high |-> Num(0), day_summary |-> Str("normal")],
                          [stress_high |-> Num(90), day_summary |-> Str("stressful")]>>
  /\ CategoryLineOf(result.value, "stress")[3] = Num(1)

\* ------------------------------------------------------------ C7
\* the records of `data` that carry a day_summary
LabelledIndices(data) == {i \in 1..Len(data) : data[i].day_summary.t = "string"}

\* how many records carry the label of record i
LabelCount(data, i) ==
  Cardinality({j \in LabelledIndices(data) : data[j].day_summary = data[i].day_summary})

\* the records whose label no other label outnumbers
MostFrequentIndices(data) ==
  {i \in LabelledIndices(data) :
     \A j \in LabelledIndices(data) : LabelCount(data, j) <= LabelCount(data, i)}

\* the stress line is the one that reports minutes and a label
ReportsLabel ==
  Reported /\ HasList("stress") /\ Len(CategoryLineOf(result.value, "stress")) = 5

ReportedLabel == CategoryLineOf(result.value, "stress")[5]

\* C7: when the stress line reports a label and some record carries one, the
\* label reported is a most frequent one among the records that carry one
\* (records with a null or absent day_summary are ignored), never "N/A".
C7_LabelIsMostFrequent ==
  (ReportsLabel /\ LabelledIndices(DataOf("stress")) # {}) =>
    \E i \in MostFrequentIndices(DataOf("stress")) :
      ReportedLabel = DataOf("stress")[i].day_summary

\* ------------------------------------------------------------ C8
\* the latest record, in input order, that carries a most frequent label
LatestMostFrequent(data) ==
  CHOOSE i \in MostFrequentIndices(data) : \A j \in MostFrequentIndices(data) : j <= i

\* C8: a label the stress line reports is the label of the latest record, in
\* input order, among the records that carry a most frequent label.
C8_TieBreakLatestRecord ==
  (ReportsLabel /\ ReportedLabel # Str("N/A")) =>
    /\ MostFrequentIndices(DataOf("stress")) # {}
    /\ ReportedLabel = DataOf("stress")[LatestMostFrequent(DataOf("stress"))].day_summary

\* [normal, stressful] is a tie and yields "stressful"
C8_Witness ==
  /\ ReportsLabel
  /\ DataOf("stress") = <<[stress_high |-> Num(0), day_summary |-> Str("normal")],
                          [stress_high |-> Num(90), day_summary |-> Str("stressful")]>>
  /\ ReportedLabel = Str("stressful")

\* ------------------------------------------------------------ C9
\* C9: the composite report carries the insight "Some data types may not be
\* available" exactly when one of the four fetches, stress included, rejected;
\* a fetch that returned no record does not bring it.
C9_UnavailableInsightIffRejected ==
  Reported =>
    (SomeUnavailableInsight \in InsightsOf(result.value)
       <=> \E c \in CategorySet : IsRejected(c))

\* only the stress fetch rejected, the sleep fetch returned no record
C9_Witness ==
  /\ Reported
  /\ IsRejected("stress")
  /\ \A c \in CategorySet \ {"stress"} : HasList(c)
  /\ DataOf("sleep") = <<>>
  /\ SomeUnavailableInsight \in InsightsOf(result.value)

\* ------------------------------------------------------------ C10
CoverageInsights == {NoDataFoundInsight, LimitedDataInsight, GoodCoverageInsight}

\* the records of c that count for the coverage
Counted(c) == IF HasList(c) THEN Len(DataOf(c)) ELSE 0

CountedTotal == Counted("sleep") + Counted("activity") + Counted("readiness")

\* C10: every composite report carries exactly one coverage insight, chosen by
\* the number T of sleep, activity and readiness records of the successful
\* fetches: "No data found" for T = 0, "Limited data available" for T = 1 or 2,
\* "Good data coverage" for T >= 3; stress records do not count.
C10_OneCoverageInsight ==
  Reported =>
    /\ Cardinality({i \in 11..Len(result.value) : result.value[i] \in CoverageInsights}) = 1
    /\ (CountedTotal = 0) => NoDataFoundInsight \in InsightsOf(result.value)
    /\ (CountedTotal \in 1..2) => LimitedDataInsight \in InsightsOf(result.value)
    /\ (CountedTotal >= 3) => GoodCoverageInsight \in InsightsOf(result.value)

\* stress records are the only data and the report says "No data found"
C10_Witness ==
  /\ Reported
  /\ \A c \in CategorySet : HasList(c)
  /\ Len(DataOf("stress")) = 3
  /\ CountedTotal = 0
  /\ NoDataFoundInsight \in InsightsOf(result.value)

\* ------------------------------------------------------------ C11
\* the health summary has returned
SummaryDone == pc = "done" /\ tool = "summary"

\* C11: the report is a function of the date range and of the outcome of each
\* category alone, so it is the same text for every order in which the four
\* requests settle (the specification records that order in `arrival` and
\* explores all of them), and in the composite report the lines of sleep,
\* activity, stress and readiness stand in that fixed order.
C11_ReportIndependentOfCompletionOrder ==
  SummaryDone =>
    /\ result = SummaryResult(dateRange, promises)
    /\ IsComposite(result.value) =>
         \A i \in 1..Len(Categories) : result.value[4 + i][1] = Str(LabelOf(Categories[i]))

\* the requests settled in the reverse of the text order, readiness failed and
\* sleep delivered a record, and the report shows each under its own label
C11_Witness ==
  /\ SummaryDone
  /\ arrival = <<"readiness", "stress", "activity", "sleep">>
  /\ IsRejected("readiness") /\ HasList("sleep") /\ Len(DataOf("sleep")) = 1
  /\ IsComposite(result.value)
  /\ CategoryLineOf(result.value, "readiness") = NoDataAvailable("readiness")
  /\ CategoryLineOf(result.value, "sleep") # NoDataAvailable("sleep")


\* ------------------------------------------------------------ C13
\* a tool has been invoked (any of the five data tools)
Invoked == pc # "idle"

\* both bounds were supplied as non-empty strings
BothSupplied == args.start_date \notin {Undefined, Str("")} /\ args.end_date \notin {Undefined, Str("")}

\* every call of makeOuraRequest, and every HTTP request issued, carries [from, to]
AllCarry(from, to) ==
  /\ \A i \in 1..Len(calls) : calls[i].start_date = from /\ calls[i].end_date = to
  /\ \A i \in 1..Len(requests) : requests[i].start_date = from /\ requests[i].end_date = to

\* C13: in each of the five data tools, when start_date and end_date are both
\* supplied and non-empty every request carries exactly these two strings,
\* whatever the period token; otherwise (one bound, none, or an empty string)
\* every request carries the range the period token alone resolves to on the
\* current day.
C13_ExplicitBoundsOnlyAsAPair ==
  Invoked =>
    /\ Len(calls) > 0
    /\ IF BothSupplied
         THEN AllCarry(args.start_date, args.end_date)
         ELSE AllCarry(GetDateRange(args.period, today).start_date,
                       GetDateRange(args.period, today).end_date)

\* the stress tool was called with a start_date only, and its request went out
\* with the dates of the period token, not with the bound supplied
C13_Witness ==
  /\ tool = "stress" /\ pc = "awaiting"
  /\ args.period = "yesterday"
  /\ args.start_date = DateStr(20240210) /\ args.end_date = Undefined
  /\ Len(requests) = 1
  /\ requests[1].start_date # args.start_date
  /\ requests[1].start_date = requests[1].end_date


\* ------------------------------------------------------------ C14
\* YYYY-MM-DD strings order as the days they name
DateLeq(a, b) == a.t = "date" /\ b.t = "date" /\ a.n <= b.n

\* C14: every HTTP request of every tool carries start_date <= end_date,
\* whatever the period token and whatever explicit bounds were passed.
C14_StartNotAfterEnd ==
  \A i \in 1..Len(requests) : DateLeq(requests[i].start_date, requests[i].end_date)


\* ------------------------------------------------------------ C15
\* the number of a calendar day on the line of days (days since 1970-01-01),
\* by the closed formula over 400-year eras, and its inverse
DayNumber(date) ==
  LET y == IF date.m <= 2 THEN date.y - 1 ELSE date.y
      era == y \div 400
      yoe == y - era * 400
      doy == (153 * (IF date.m > 2 THEN date.m - 3 ELSE date.m + 9) + 2) \div 5 + date.d - 1
      doe == yoe * 365 + yoe \div 4 - yoe \div 100 + doy
  IN  era * 146097 + doe - 719468

CivilOf(z) ==
  LET z0 == z + 719468
      era == z0 \div 146097
      doe == z0 - era * 146097
      yoe == (doe - doe \div 1460 + doe \div 36524 - doe \div 146096) \div 365
      doy == doe - (365 * yoe + yoe \div 4 - yoe \div 100)
      mp == (5 * doy + 2) \div 153
      d == doy - (153 * mp + 2) \div 5 + 1
      m == IF mp < 10 THEN mp + 3 ELSE mp - 9
  IN  [y |-> yoe + era * 400 + (IF m <= 2 THEN 1 ELSE 0), m |-> m, d |-> d]

\* the day a YYYY-MM-DD string spells
ParseDate(v) == [y |-> v.n \div 10000, m |-> (v.n \div 100) % 100, d |-> v.n % 100]

\* v is the YYYY-MM-DD string of the day k days before the current day
IsDaysBeforeToday(v, k) ==
  /\ v.t = "date"
  /\ CivilOf(DayNumber(ParseDate(v))) = ParseDate(v)
  /\ DayNumber(ParseDate(v)) = DayNumber(today) - k

\* a tool was invoked with this period token and its range came from the token
ResolvedFrom(period) == Invoked /\ ~BothSupplied /\ args.period = period

\* every call of makeOuraRequest starts `from` days and ends `to` days before today
AllReach(from, to) ==
  \A i \in 1..Len(calls) :
    IsDaysBeforeToday(calls[i].start_date, from) /\ IsDaysBeforeToday(calls[i].end_date, to)

\* C15: on the current day d the token 'today' resolves to [d, d] and
\* 'yesterday' to [d-1, d-1], d-1 being the calendar day before d also where d
\* is the first day of a month or of a year.
C15_TodayAndYesterday ==
  /\ ResolvedFrom("today") => AllReach(0, 0)
  /\ ResolvedFrom("yesterday") => AllReach(1, 1)

\* on 2024-01-01 the sleep tool asked for 'yesterday' and requested 2023-12-31
C15_Witness ==
  /\ ResolvedFrom("yesterday") /\ tool = "sleep"
  /\ today = [y |-> 2024, m |-> 1, d |-> 1]
  /\ Len(requests) = 1
  /\ requests[1].start_date = DateStr(20231231) /\ requests[1].end_date = DateStr(20231231)

\* ------------------------------------------------------------ C16
Vocabulary == {"today", "yesterday", "week", "month"}

\* C16: on the current day d 'week' resolves to [d-6, d] and 'month' to
\* [d-29, d]; for each of the four vocabulary tokens start_date <= end_date
\* and end_date <= d.
C16_WeekAndMonth ==
  /\ ResolvedFrom("week") => AllReach(6, 0)
  /\ ResolvedFrom("month") => AllReach(29, 0)
  /\ (Invoked /\ ~BothSupplied /\ args.period \in Vocabulary) =>
       \A i \in 1..Len(calls) :
         /\ DateLeq(calls[i].start_date, calls[i].end_date)
         /\ DayNumber(ParseDate(calls[i].end_date)) <= DayNumber(today)

\* on 2024-03-01 'month' reached back over the 29 days of February to 2024-02-01,
\* a range that is not the calendar month of March
C16_Witness ==
  /\ ResolvedFrom("month") /\ tool = "summary"
  /\ today = [y |-> 2024, m |-> 3, d |-> 1]
  /\ Len(requests) = 4
  /\ requests[1].start_date = DateStr(20240201) /\ requests[1].end_date = DateStr(20240301)

\* ------------------------------------------------------------ C17
\* C17: a token that is not exactly one of the four lowercase vocabulary
\* strings (the empty string, 'Today', 'MONTH', any other) resolves, without
\* failing, to the range 'week' resolves to on the same day, which is [d-6, d].
C17_OtherTokensResolveAsWeek ==
  (Invoked /\ ~BothSupplied /\ args.period \notin Vocabulary) =>
    /\ Len(calls) > 0
    /\ AllCarry(GetDateRange("week", today).start_date, GetDateRange("week", today).end_date)
    /\ AllReach(6, 0)

\* the readiness tool was called with 'MONTH' on 2024-01-01 and requested the
\* seven days from 2023-12-26
C17_Witness ==
  /\ Invoked /\ ~BothSupplied /\ args.period = "MONTH" /\ tool = "readiness"
  /\ today = [y |-> 2024, m |-> 1, d |-> 1]
  /\ Len(requests) = 1
  /\ requests[1].start_date = DateStr(20231226) /\ requests[1].end_date = DateStr(20240101)


\* ------------------------------------------------------------ C18
\* every way a call of makeOuraRequest rejects: missing token, network error,
\* 401, 403, 429, another HTTP error, a body that is not JSON
RejectionKinds ==
  {Rejected(OuraAPIUserError("Oura API token not configured", SetupRequiredMessage))}
  \cup {MakeOuraRequestSettle(resp) :
          resp \in {r \in FailedResponses : MakeOuraRequestSettle(r).status = "rejected"}}

OtherCauses(c) == IF IsRejected(c) THEN RejectionKinds ELSE {promises[c]}

\* the settled results with the rejected ones rejected for any other causes
WithOtherCauses ==
  {[c \in CategorySet |->
      CASE c = "sleep" -> s [] c = "activity" -> a [] c = "stress" -> t [] OTHER -> r] :
     s \in OtherCauses("sleep"), a \in OtherCauses("activity"),
     t \in OtherCauses("stress"), r \in OtherCauses("readiness")}

\* the user messages that name a cause
CauseMessages ==
  {SetupRequiredMessage, AuthenticationFailedMessage, AccessDeniedMessage, RateLimitMessage}
  \cup {ApiErrorMessage(st) : st \in ErrorStatuses}

\* C18: the text the health summary returns is the text it returns when the
\* rejected requests are rejected for any other causes (missing token, network
\* error, 401, 403, 429, other status, unreadable body), and it is never one of
\* the user messages that name a cause.
C18_CauseOfFailureNotReported ==
  Done =>
    /\ \A q \in WithOtherCauses : SummaryResult(dateRange, q) = result
    /\ result.value \notin CauseMessages

\* sleep was refused with 401, readiness failed in the network, and the
\* composite report was returned with both categories unavailable
C18_Witness ==
  /\ Done
  /\ IsRejected("sleep") /\ promises["sleep"].reason.userMessage = AuthenticationFailedMessage
  /\ IsRejected("readiness") /\ promises["readiness"].reason.name = "TypeError"
  /\ IsComposite(result.value)
  /\ SomeUnavailableInsight \in InsightsOf(result.value)


\* ------------------------------------------------------------ C19
AllSettled == \A c \in CategorySet : promises[c].status # "pending"

\* C19: the promise of the health summary stays pending as long as one of the
\* four requests is pending (so a request that never settles holds the report
\* back for ever: nothing in the code times out or cancels), and once all four
\* have settled the report is eventually returned.
C19_ReportWaitsForAllFour ==
  /\ [](result.status # "pending" => AllSettled)
  /\ (pc = "awaiting" /\ AllSettled) ~> (SummaryDone /\ result.status = "fulfilled")

\* the report has been returned after four completions, activity being the last
C19_Witness ==
  /\ SummaryDone /\ result.status = "fulfilled"
  /\ Len(arrival) = Len(Categories) /\ arrival[Len(arrival)] = "activity"
  /\ AllSettled


\* ------------------------------------------------------------ C20
\* the four calls of one health summary: one per endpoint, in this order, each
\* with the start_date and end_date of the invocation's date range
FourCalls ==
  <<[start_date |-> dateRange.start_date,
     end_date |-> dateRange.end_date, endpoint |-> "/usercollection/daily_sleep"],
    [start_date |-> dateRange.start_date,
     end_date |-> dateRange.end_date, endpoint |-> "/usercollection/daily_activity"],
    [start_date |-> dateRange.start_date,
     end_date |-> dateRange.end_date, endpoint |-> "/usercollection/daily_stress"],
    [start_date |-> dateRange.start_date,
     end_date |-> dateRange.end_date, endpoint |-> "/usercollection/daily_readiness"]>>

\* C20: from the moment the health summary waits for its first result until
\* it has returned, the calls of makeOuraRequest made are exactly four, one per
\* endpoint daily_sleep, daily_activity, daily_stress, daily_readiness, all with
\* the same start_date and end_date; with a token each is one HTTP request
\* (without one none is sent); and no response, whether or not it names a next
\* page, adds a request.
C20_ExactlyFourRequests ==
  (tool = "summary" /\ pc \in {"awaiting", "done"}) =>
    /\ calls = FourCalls
    /\ requests = IF API_TOKEN THEN FourCalls ELSE <<>>

\* the summary has returned, two responses named a next page, and the four
\* requests are all that was sent
C20_Witness ==
  /\ SummaryDone
  /\ "next_token" \in DOMAIN promises["sleep"].value
  /\ "next_token" \in DOMAIN promises["stress"].value
  /\ Len(requests) = 4
  /\ {requests[i].endpoint : i \in 1..4} = {Endpoint(c) : c \in CategorySet}


\* ------------------------------------------------------------ C21
\* a single-metric tool has returned after an HTTP response arrived
Answered(c) == pc = "done" /\ tool = c /\ responses[c].kind = "http"

\* the user message the statuses stand for
UserMessageOf(status) ==
  CASE status = 401 -> <<<<Str("Authentication Failed: Your Oura API token is invalid or expired.")>>>>
    [] status = 403 -> <<<<Str("Access Denied: Cannot access your Oura data.")>>>>
    [] status = 429 -> <<<<Str("Rate Limit Reached: Too many requests to the Oura API.")>>>>
    [] OTHER -> <<<<Str("API Error: Unable to fetch your Oura data ("), Num(status), Str(").")>>>>

\* every response that is not ok makes makeOuraRequest raise an
\* OuraAPIUserError whose user message depends on the status alone
NotOkRaisesByStatus(c) ==
  ~responses[c].ok =>
    /\ promises[c].status = "rejected"
    /\ promises[c].reason.name = "OuraAPIUserError"
    /\ promises[c].reason.userMessage = UserMessageOf(responses[c].status)

ReturnedParsedBody(c) ==
  promises[c].status = "fulfilled" /\ promises[c].value = responses[c].body

\* C21 as stated: makeOuraRequest returns the parsed body if and only if the
\* HTTP response is ok, and every response that is not ok raises an
\* OuraAPIUserError whose user message is selected by the status alone.
C21_ParsedBodyIffOk ==
  \A c \in CategorySet :
    Answered(c) => /\ ReturnedParsedBody(c) <=> responses[c].ok
                   /\ NotOkRaisesByStatus(c)

\* C21 amended: makeOuraRequest returns the parsed body if and only if the
\* HTTP response is ok and its body parses as JSON; an ok response whose body
\* does not parse raises the SyntaxError of json(), which is no
\* OuraAPIUserError; every response that is not ok raises an OuraAPIUserError
\* whose user message is selected by the status alone (401 authentication
\* failed, 403 access denied, 429 rate limit, any other status the API-error
\* message naming that status), whatever the text of the response.
C21_ParsedBodyIffOkAndJson ==
  \A c \in CategorySet :
    Answered(c) =>
      /\ ReturnedParsedBody(c) <=> (responses[c].ok /\ responses[c].json)
      /\ (responses[c].ok /\ ~responses[c].json) =>
            /\ promises[c].status = "rejected"
            /\ promises[c].reason.name = "SyntaxError"
      /\ NotOkRaisesByStatus(c)

\* an ok response without a JSON body was answered with a rejection
C21_Witness ==
  \E c \in CategorySet :
    /\ Answered(c)
    /\ responses[c].ok
    /\ ~responses[c].json
    /\ promises[c].status = "rejected"

\* ------------------------------------------------------------ C22
\* C22: when no API token is configured no HTTP request is ever issued and no
\* response ever arrives: every call of makeOuraRequest (one by a single-metric
\* tool, four by the summary) raises the setup-required OuraAPIUserError before
\* fetch, and executeCheckOuraSetup returns its own setup-required text
\* without calling makeOuraRequest at all.
C22_NoRequestWithoutToken ==
  ~API_TOKEN =>
    /\ requests = <<>>
    /\ \A k \in RequestKeys : responses[k].kind = "none"
    /\ \A c \in CategorySet :
         tool \in {c, "summary"} =>
           /\ pc = "done"
           /\ \E i \in 1..Len(calls) : calls[i].endpoint = Endpoint(c)
           /\ promises[c].status = "rejected"
           /\ promises[c].reason.name = "OuraAPIUserError"
           /\ promises[c].reason.userMessage =
                <<<<Str("Setup Required: Please configure your Oura API token.")>>>>
    /\ tool = "setup" =>
         /\ pc = "done"
         /\ calls = <<>>
         /\ result.status = "fulfilled"
         /\ result.value = <<<<Str("Setup Required: No Oura API token found.")>>>>

\* without a token the setup tool has returned
C22_Witness ==
  /\ ~API_TOKEN
  /\ pc = "done"
  /\ tool = "setup"
  /\ calls = <<>>

\* ------------------------------------------------------------ C23
\* the fixed text of a tool for failures that are no OuraAPIUserError
GenericTextOf(t) ==
  IF t = "setup"
    THEN <<<<Str("Setup Check Failed: Unable to verify your Oura API connection.")>>>>
    ELSE <<<<Str("Error: Unable to fetch "), Str(t), Str(" data. Please try again later.")>>>>

\* the request of a single-metric tool succeeded with a list of records
MetricSucceeded(c) == promises[c].status = "fulfilled" /\ promises[c].value.hasData

RaisedUserError(c) ==
  promises[c].status = "rejected" /\ promises[c].reason.name = "OuraAPIUserError"

\* a single-metric tool resolved as C23 says
MetricResolvedAsStated(c) ==
  /\ result.status = "fulfilled"
  /\ result.value = CASE MetricSucceeded(c) -> FormatData(c, promises[c].value.data)
                       [] RaisedUserError(c) -> promises[c].reason.userMessage
                       [] OTHER -> GenericTextOf(c)

\* the setup tool resolved as C23 says, told from the response it received
SetupResolvedAsStated ==
  LET resp == responses["setup"] IN
  /\ result.status = "fulfilled"
  /\ CASE resp.kind = "none" ->
             result.value = <<<<Str("Setup Required: No Oura API token found.")>>>>
       [] resp.kind = "http" /\ ~resp.ok -> result.value = UserMessageOf(resp.status)
       [] resp.kind = "http" /\ resp.ok /\ resp.json /\ resp.body.object ->
             /\ result.value[1] = <<Str("Oura API Setup Complete!")>>
             /\ result.value[3] = <<Str("Account ID: "), resp.body.id>>
       [] OTHER -> result.value = GenericTextOf("setup")

\* C23: a single-metric tool and executeCheckOuraSetup never reject: each
\* resolves to the formatted data on success, to exactly the userMessage of
\* the error when the request raised an OuraAPIUserError, and to the fixed
\* generic text of the tool for any other failure (a network error, a body
\* that is not JSON, a body without the expected content).
C23_ToolsNeverReject ==
  pc = "done" =>
    /\ \A c \in CategorySet : tool = c => MetricResolvedAsStated(c)
    /\ tool = "setup" => SetupResolvedAsStated

\* a single-metric tool has answered an OuraAPIUserError with its userMessage
C23_Witness ==
  \E c \in CategorySet :
    /\ pc = "done"
    /\ tool = c
    /\ RaisedUserError(c)
    /\ responses[c].status = 429
    /\ result.value = promises[c].reason.userMessage

\* ------------------------------------------------------------ C25
\* a single-metric tool has returned the listing of a page with records
Listed(c) ==
  /\ pc = "done"
  /\ tool = c
  /\ MetricSucceeded(c)
  /\ promises[c].value.data # <<>>

\* the lines a listing spends on one record, and where its first one is
LinesPerRecord(c) ==
  CASE c = "sleep" -> 2
    [] c = "activity" -> 3
    [] c = "stress" -> 4
    [] c = "readiness" -> 2

FirstLineOf(c, i) == 3 + LinesPerRecord(c) * (i - 1)

\* the line renders its value as N/A
RendersNA(line) == line[2] = Str("N/A")

\* C25: the listings agree with the summary on what counts as a present
\* value: the score of a sleep, activity or readiness record is rendered as
\* 'N/A' if and only if it is null or absent, and so are the high-stress and
\* the high-recovery time of a stress record; a value of 0 is rendered as a
\* number.
C25_NotAvailableIffNullOrAbsent ==
  \A c \in CategorySet :
    Listed(c) =>
      \A i \in 1..Len(promises[c].value.data) :
        LET d == promises[c].value.data[i]
            first == FirstLineOf(c, i)
        IN  IF c = "stress"
              THEN /\ RendersNA(result.value[first + 1]) <=> ~Present(d.stress_high)
                   /\ RendersNA(result.value[first + 2]) <=> ~Present(d.recovery_high)
              ELSE RendersNA(result.value[first]) <=> ~Present(d.score)

\* ------------------------------------------------------------ C24
\* the response of category c carried a parsed body
Parsed(c) == responses[c].kind = "http" /\ responses[c].ok /\ responses[c].json

\* C24: aggregation leaves its inputs unchanged: once the summary has built
\* its report, every fetched record list holds the same records in the same
\* order as when its fetch settled.
C24_InputsUnchanged ==
  SummaryDone =>
    \A c \in CategorySet :
      Parsed(c) => /\ promises[c].status = "fulfilled"
                   /\ promises[c].value = responses[c].body

\* a report was built from a stress list of two records with different labels
C24_Witness ==
  /\ SummaryDone
  /\ result.status = "fulfilled"
  /\ Parsed("stress")
  /\ Len(responses["stress"].body.data) >= 2
  /\ \E i, j \in 1..Len(responses["stress"].body.data) :
       responses["stress"].body.data[i].day_summary
         # responses["stress"].body.data[j].day_summary

\* ------------------------------------------------------------ C26
\* the kind of value agent.schedule is to receive for each type of schedule
InputKindOf(type) ==
  CASE type = "scheduled" -> "date"
    [] type = "delayed" -> "number"
    [] type = "cron" -> "string"

\* scheduleTask returned without a call of agent.schedule
ReturnedNoSchedule ==
  /\ scheduleReturn'.value = <<Str("Not a valid schedule input")>>
  /\ schedules' = schedules

\* scheduleTask made one call of agent.schedule for a schedule of this type
ScheduledOnce(type) ==
  /\ Len(schedules') = Len(schedules) + 1
  /\ SubSeq(schedules', 1, Len(schedules)) = schedules
  /\ LET call == schedules'[Len(schedules')]
     IN  /\ call.callback = "executeTask"
         /\ call.payload \in Descriptions
         /\ call.when.t = InputKindOf(type)
         /\ IF call.outcome = "throws"
              THEN scheduleReturn'.value[1] = Str("Error scheduling task: ")
              ELSE scheduleReturn'.value =
                     <<Str("Task scheduled for type "), Str(type), Str(" : "), call.when>>

C27_NoModelWithoutToken ==
  ~API_TOKEN =>
    /\ modelCalls = 0
    /\ toolRuns = 0
    /\ Len(stream) = 2 * Len(finishes)
    /\ \A i \in 1..Len(finishes) :
         /\ finishes[i] = "error"
         /\ stream[2 * i - 1].type = "annotation"
         /\ stream[2 * i] = [value |-> <<<<Str("Oura API Setup Required")>>>>, type |-> "data"]

\* a chat request was answered without a token
C27_Witness ==
  /\ ~API_TOKEN
  /\ finishes = <<"error">>
  /\ Len(stream) = 2

\* ------------------------------------------------------------ C28
\* the message of a scheduled run
IsTaskMessage(m) ==
  \E d \in Descriptions :
    m = [role |-> "user", content |-> <<Str("Running scheduled task: "), Str(d)>>]

====
